---- MODULE Spec2Model ----
(***************************************************************************)
(* Model of the TradingView -> OKX webhook pipeline of src/app.py.         *)
(*                                                                         *)
(* src/app.py holds two versions of the program one after the other; the   *)
(* second (lines 283-707) rebinds every name of the first when the module  *)
(* is loaded, so the running program is the second version and that is     *)
(* what is modelled here.                                                  *)
(*                                                                         *)
(* One webhook invocation is a sequence of steps, cut at the outbound      *)
(* network calls: a step runs the handler's code from one network reply    *)
(* up to the next request it sends (or up to the HTTP response it          *)
(* returns).  The venue's replies are the inputs of the steps.             *)
(*                                                                         *)
(* Sizes (quantity, lotSz, minSz, pos) are counted in whole ticks: the     *)
(* code does exact Decimal arithmetic on them (Decimal(str(x))), which is  *)
(* homogeneous in the tick, so 0.0035 / 0.001 / 0.001 is 35 / 10 / 10 in   *)
(* ticks of 0.0001.                                                        *)
(***************************************************************************)
EXTENDS Integers, Sequences, FiniteSets, TLC

\* ---------------------------------------------------------------- bounds
MaxQty == 2          \* largest quantity a signal asks for
MaxLot == 2          \* largest lotSz the venue reports to the pipeline
MaxMin == 2          \* largest minSz the venue reports to the pipeline
MaxPos == 2          \* largest position size the venue reports
NormMaxQty == 36     \* normalize_size on its own: largest amount
NormMaxLot == 10     \* normalize_size on its own: largest lot_size
NormMaxMin == 10     \* normalize_size on its own: largest min_size

\* -------------------------------------------------------------- optionals
\* Python's None / a present value, as a sequence of length 0 / 1.
None == <<>>
Some(x) == <<x>>
IsNone(o) == o = <<>>

\* dict.get(key, default)
Get(d, key, default) == IF key \in DOMAIN d THEN d[key] ELSE default

\* ------------------------------------------------------- normalize_size
\* Decimal quantize(Decimal('1'), ROUND_HALF_UP) of a / b, for a >= 0, b > 0:
\* the nearest integer, a tie going up.
\* (RoundDown truncates instead: the rounding C5 is checked to tell apart;
\* RoundUpOffByOne is a ceiling that steps up from an exact multiple too,
\* for C26's sensitivity)
RoundDown(a, b) == a \div b
RoundUpOffByOne(a, b) == (a \div b) + 1
RoundHalfUp(a, b) == (2 * a + b) \div (2 * b)

normalize_size(amount, lot_size, min_size) ==
    LET amt       == IF amount < min_size THEN min_size ELSE amount
        multiples == RoundHalfUp(amt, lot_size)
    IN  (IF multiples <= 0 THEN 1 ELSE multiples) * lot_size

\* ------------------------------------------------------------- symbols
\* A symbol is the sequence of its dash-separated parts:
\* "BTC-USDT-SWAP" is <<"BTC", "USDT", "SWAP">>.
BTC_USDT      == <<"BTC", "USDT">>
BTC_USDT_SWAP == <<"BTC", "USDT", "SWAP">>
ETH_USDT_SWAP == <<"ETH", "USDT", "SWAP">>
NONE_SYM      == <<"NONE">>
none_sym      == <<"none">>
EMPTY_SYM     == <<"">>                       \* the empty string

\* str.upper() / str.lower() on the words the model uses
Upper(w) == CASE w = "none" -> "NONE" [] w = "buy" -> "BUY" [] OTHER -> w
Lower(w) == CASE w = "BUY" -> "buy" [] w = "NONE" -> "none" [] OTHER -> w

\* sym.upper() != 'NONE'
IsNoneSentinel(sym) == Len(sym) = 1 /\ Upper(sym[1]) = "NONE"
\* sym.endswith("-SWAP")
\* (NeverEndsWithSwap finds the suffix nowhere, for C15's sensitivity)
NeverEndsWithSwap(sym) == FALSE
EndsWithSwap(sym) == Len(sym) >= 2 /\ sym[Len(sym)] = "SWAP"

\* parse_tradingview_webhook, lines 525-528
NormalizeSymbol(sym, market) ==
    IF sym # EMPTY_SYM /\ ~IsNoneSentinel(sym)
       /\ market = "swap" /\ ~EndsWithSwap(sym)
    THEN Append(sym, "SWAP")
    ELSE sym

\* ------------------------------------------------------- webhook token
\* (the check without its placeholder clause, for C1's sensitivity)
validate_webhook_token_no_placeholder(token, expected_token) ==
    token = expected_token

validate_webhook_token(token, expected_token) ==
    token = expected_token /\ token # "change-me"


\* --------------------------------------------------------------- state
VARIABLES
    WEBHOOK_TOKEN,    \* os.getenv('WEBHOOK_TOKEN', 'test123')
    default_market,   \* trader.default_market: "swap" | "spot"
    default_tdmode,   \* trader.default_tdmode: "cross" | "isolated"
    secret_key,       \* trader.secret_key is set (OKX_API_SECRET)
    api_key,          \* trader.api_key is set (OKX_API_KEY)
    passphrase,       \* trader.passphrase is set (OKX_API_PASSPHRASE)
    pc,               \* where the webhook handler stands
    payload,          \* the request being handled: [json_ok, fields]
    parsed,           \* None, or Some(the dict parse_tradingview_webhook builds)
    order,            \* place_order's arguments and locals
    close_args,       \* None, or Some(close_position's arguments [symbol, side])
    closing,          \* None, or Some(the position close_position is closing)
    positions,        \* None, or Some(the reply get_positions returned)
    calls,            \* outbound network calls of this invocation, in order
    lookups,          \* the get_instrument_info calls: [by, symbol], in order
    orders,           \* bodies POSTed to /api/v5/trade/order in this invocation
    authed,           \* validate_webhook_token has accepted this request
    poInst,           \* place_order's instrument lookup: "none" | "unresolved" | "resolved"
    instReply,        \* "none", or how the HTTP GET of place_order's lookup ended
    cfgReply,         \* "none", or what get_account_config's GET answered
    postReply,        \* "none", or how the order POST ended
    inflight,         \* None, or Some(the signed request awaiting its reply)
    response,         \* None, or Some(the HTTP response of webhook())
    npc, namount, nlot, nmin, nresult,  \* normalize_size applied on its own
    nagain,           \* ... and applied once more to its own result
    venuePos,         \* the net position the venue holds for the symbol
    openSize,         \* the size of that position before any close signal
    cpc,              \* concurrent close requests: where each handler stands
    csnap,            \* ... the position each handler's get_positions reported
    closes            \* ... the closing orders POSTed, in the order they arrive

pipelineVars == <<WEBHOOK_TOKEN, default_market, default_tdmode, secret_key,
                  api_key, passphrase, pc, payload, parsed, order, close_args,
                  closing, positions, calls, lookups, orders, authed, poInst,
                  instReply, cfgReply, postReply, inflight, response>>
normVars     == <<npc, namount, nlot, nmin, nresult, nagain>>
concVars     == <<venuePos, openSize, cpc, csnap, closes>>
vars         == <<pipelineVars, normVars, concVars>>

\* ------------------------------------------------------ network calls
GetInstruments == "GET /api/v5/public/instruments"
\* the fetch of the whole instrument list (lines 152-153, in the definition of
\* get_instrument_info that lines 385-401 replace): no step of the running
\* program issues it
GetInstrumentList == "GET /api/v5/public/instruments?instType=SWAP"
GetTime        == "GET /api/v5/public/time"
GetConfig      == "GET /api/v5/account/config"
GetPositions   == "GET /api/v5/account/positions"
PostOrder      == "POST /api/v5/trade/order"

\* ------------------------------------------------------------- inputs
Tokens == {"test123", "change-me", "wrong"}

Drop(d, F) == [k \in DOMAIN d \ F |-> d[k]]

\* buy / sell signals
OrderSignals ==
    [action: {"buy", "sell"}, symbol: {BTC_USDT, BTC_USDT_SWAP},
     quantity: 0..MaxQty, price: {7}, order_type: {"market", "limit"},
     token: Tokens]
\* close signals, signals with an action the handler does not know, an
\* upper-case action, and the "NONE" sentinel or the empty string as symbol
OtherSignals ==
    [action: {"close", "hold", "BUY"}, symbol: {BTC_USDT, BTC_USDT_SWAP},
     quantity: {1}, price: {7}, order_type: {"market"}, token: Tokens]
    \cup
    [action: {"buy"}, symbol: {NONE_SYM, none_sym, EMPTY_SYM},
     quantity: {1}, price: {7}, order_type: {"market"}, token: {"test123", "wrong"}]

FieldSets == {{}, {"price"}, {"action"}, {"symbol"}, {"action", "symbol"},
              {"quantity", "price", "order_type", "token"}}

Payloads ==
    { [json_ok |-> TRUE, fields |-> Drop(s, {})] : s \in OtherSignals }
    \cup { [json_ok |-> TRUE, fields |-> Drop(s, F)] :
             s \in OrderSignals, F \in {{}, {"price"}} }
    \cup { [json_ok |-> TRUE, fields |-> Drop(s, F)] :
             s \in {o \in OrderSignals \cup OtherSignals :
                      o.quantity = 1 /\ o.order_type = "market"
                      /\ o.symbol = BTC_USDT /\ o.action \in {"buy", "close"}},
             F \in FieldSets \ {{}, {"price"}} }
    \cup { [json_ok |-> FALSE, fields |-> Drop(s, DOMAIN s)] :
             s \in {o \in OtherSignals : o.action = "hold" /\ o.token = "wrong"
                                         /\ o.symbol = BTC_USDT} }  \* text that is not JSON

\* an instrument rule of the venue
Rules == [lotSz: 1..MaxLot, minSz: 1..MaxMin]

\* how one GET /public/instruments?instId=... can end: the transport fails
\* ("timeout"), the venue answers with a status other than 200 and an error
\* body ("non200"), with an empty body ("empty_body"), with a body that is
\* not JSON ("bad_json"), with JSON that carries no instrument ("no_match"),
\* or with the instrument's rule ("ok")
InstrumentFailures == {"timeout", "non200", "empty_body", "bad_json", "no_match"}
InstrumentHttp ==
    { [kind |-> k, data |-> None] : k \in InstrumentFailures }
    \cup { [kind |-> "ok", data |-> Some(r)] : r \in Rules }

\* the attempts _get_with_retry makes by default (line 94); the running
\* get_instrument_info does not go through _get_with_retry
tries == 3

\* get_instrument_info (lines 385-401) on the outcome h of its one GET:
\* data['data'][0] when the body is JSON with code '0' and data, else None
\* (lines 397-398, or the except branch of lines 399-401)
get_instrument_info(h) == IF h.kind = "ok" THEN h.data ELSE None

\* what get_instrument_info can return: None or Some(rule)
InstrumentReplies == { get_instrument_info(h) : h \in InstrumentHttp }

\* GET /account/config: the account's posMode, or a lookup that fails: the
\* transport fails ("timeout"), the body is not JSON ("unparsable"), the venue
\* answers a code other than "0" ("venue_error"), or code "0" without data
\* ("empty_data")
ConfigFailures == {"timeout", "unparsable", "venue_error", "empty_data"}
ConfigReplies == {"net_mode", "long_short_mode"} \cup ConfigFailures

\* get_account_config (lines 374-383) on the outcome c of its GET:
\* data["data"][0], or None for every failure
get_account_config(c) ==
    IF c \in ConfigFailures THEN None ELSE Some([posMode |-> c])

\* POST /trade/order: the venue accepts (code "0"), the venue refuses
\* (another code), the transport fails, the body is not JSON
PostReplies == {"ok", "venue_error", "timeout", "unparsable"}

MgnModes == {"cross", "isolated"}
OtherMgn(m) == IF m = "cross" THEN "isolated" ELSE "cross"

Position(inst, side, size, mgn) ==
    [instId |-> inst, posSide |-> side, pos |-> size, mgnMode |-> mgn]

\* data of GET /account/positions?instId=symbol: the two legs of a hedge
\* account, the one net position of a net account, nothing, or (a venue that
\* ignores the filter) a position of another instrument
PositionLists(symbol) ==
    { <<Position(symbol, "long", l, m), Position(symbol, "short", s, OtherMgn(m))>> :
        l \in 0..MaxPos, s \in 0..MaxPos, m \in MgnModes }
    \cup { <<Position(symbol, "net", n, m)>> : n \in (0 - MaxPos)..MaxPos, m \in MgnModes }
    \cup { <<>>, <<Position(ETH_USDT_SWAP, "long", 1, "cross")>> }

\* response.json() of get_positions, or its except branch
PositionReplies(symbol) ==
    { [code |-> "0", data |-> d] : d \in PositionLists(symbol) }
    \cup { [code |-> "50001", data |-> <<>>], [code |-> "error", data |-> <<>>] }


\* ------------------------------------------------------ webhook(), parse
cfgVars == <<WEBHOOK_TOKEN, default_market, default_tdmode, secret_key,
             api_key, passphrase>>

\* jsonify(...) of webhook(): the HTTP response, data being None or Some(result)
Response(status, http, data) == [status |-> status, http |-> http, data |-> data]

\* lines 581-584: the result of place_order / close_position becomes the response
\* (ResultResponseAlwaysSuccess leaves the code unread, for C14's sensitivity)
ResultResponseAlwaysSuccess(result) == Response("success", 200, Some(result))
ResultResponse(result) ==
    IF result.code = "0"
    THEN Response("success", 200, Some(result))
    ELSE Response("error", 500, Some(result))

\* lines 585-587: an exception that reaches webhook()'s except clause
\* (UnhandledFault is the exception leaving webhook() uncaught, for C13's
\* sensitivity)
UnhandledFault == Response("fault", 500, None)
FaultResponse == Response("error", 500, None)

\* lines 519-522
\* (required_fields_symbol_only leaves `action` unchecked, for C3's sensitivity)
required_fields_symbol_only == {"symbol"}
required_fields == {"action", "symbol"}

\* parse_tradingview_webhook up to its instrument lookup (lines 516-531) raises:
\* json.loads fails, a required field is missing, or webhook_data['symbol']
\* is a KeyError
ParseRaisesBeforeLookup(p) ==
    \/ ~p.json_ok
    \/ \E f \in required_fields : f \notin DOMAIN p.fields
    \/ "symbol" \notin DOMAIN p.fields

\* the dict of lines 538-546, once the lookup has answered with inst
ParsedDict(fields, market, inst) ==
    LET q == Get(fields, "quantity", 1)
    IN  [action     |-> Lower(fields.action),
         symbol     |-> NormalizeSymbol(fields.symbol, market),
         quantity   |-> IF IsNone(inst) THEN q
                        ELSE normalize_size(q, inst[1].lotSz, inst[1].minSz),
         price      |-> IF "price" \in DOMAIN fields THEN Some(fields.price) ELSE None,
         order_type |-> Get(fields, "order_type", "market"),
         token      |-> Get(fields, "token", "")]

\* place_order's arguments (line 454) as it starts
OrderArgs(symbol, side, amount, price, order_type, td_mode) ==
    [symbol |-> symbol, side |-> side, amount |-> amount, price |-> price,
     order_type |-> order_type, td_mode |-> td_mode]

\* a request arrives: webhook() lines 558-563 and the parse up to its lookup
Receive(p) ==
    /\ pc = "idle"
    /\ payload' = p
    /\ IF ParseRaisesBeforeLookup(p)
       THEN /\ calls' = <<>>
            /\ lookups' = <<>>
            /\ response' = Some(Response("error", 400, None))
            /\ pc' = "done"
       ELSE /\ calls' = <<GetInstruments>>       \* line 532
            /\ lookups' = <<[by |-> "parse",
                             symbol |-> NormalizeSymbol(p.fields.symbol, default_market)]>>
            /\ response' = None
            /\ pc' = "parse_inst"
    /\ UNCHANGED <<cfgVars, normVars, concVars, parsed, order, closing, positions, orders,
                   authed, poInst, postReply,
                   close_args, instReply, cfgReply, inflight>>

\* close_position's scan (lines 440-441): the positions of the symbol with a
\* nonzero size, by index
OpenIndicesAnySize(data, symbol) ==
    {i \in 1..Len(data) : data[i].instId = symbol}
OpenIndices(data, symbol) ==
    {i \in 1..Len(data) : data[i].instId = symbol /\ data[i].pos # 0}

Abs(n) == IF n < 0 THEN 0 - n ELSE n
Min(S) == CHOOSE x \in S : \A y \in S : x <= y

\* the parse's lookup answers (lines 533-549), then webhook() lines 562-579:
\* the token check and the dispatch on the action
ParseInstReply(h) ==
    /\ pc = "parse_inst"
    /\ IF "action" \notin DOMAIN payload.fields      \* KeyError at line 539
       THEN /\ response' = Some(Response("error", 400, None))
            /\ pc' = "done"
            /\ UNCHANGED <<parsed, authed, order, calls, lookups, close_args>>
       ELSE LET d == ParsedDict(payload.fields, default_market,
                                get_instrument_info(h)) IN
            /\ parsed' = Some(d)
            /\ IF ~validate_webhook_token(d.token, WEBHOOK_TOKEN)
               THEN /\ response' = Some(Response("error", 403, None))
                    /\ pc' = "done"
                    /\ UNCHANGED <<authed, order, calls, lookups, close_args>>
               ELSE /\ authed' = TRUE
                    /\ IF d.action \in {"buy", "sell"}
                       THEN /\ order' = Some(OrderArgs(d.symbol, d.action, d.quantity,
                                                       d.price, d.order_type, None))
                            /\ calls' = Append(calls, GetInstruments)   \* line 457
                            /\ lookups' = Append(lookups, [by |-> "place_order",
                                                           symbol |-> d.symbol])
                            /\ pc' = "po_inst"
                            /\ UNCHANGED <<response, close_args>>
                       ELSE IF d.action = "close"
                       THEN /\ close_args' = Some([symbol |-> d.symbol,    \* line 577
                                                   side |-> "both"])
                            /\ calls' = Append(calls, GetTime)          \* line 426 -> 353
                            /\ pc' = "pos_time"
                            /\ UNCHANGED <<order, response, lookups>>
                       ELSE /\ response' = Some(Response("error", 400, None))
                            /\ pc' = "done"
                            /\ UNCHANGED <<order, calls, lookups, close_args>>
    /\ UNCHANGED <<cfgVars, normVars, concVars, payload, closing, positions, orders,
                   poInst, postReply,
                   instReply, cfgReply, inflight>>


\* ------------------------------------------------------------ signing
\* sign_request (lines 352-367): get_timestamp() issues GET /public/time and
\* always returns a timestamp (server time, or the local clock in its except
\* branch); then self.secret_key.encode() raises when the secret is unset.
\* The exception is raised outside every try of the callers, so it reaches
\* webhook()'s except clause.  api_key and passphrase are only copied into
\* the headers (lines 359, 362): unset, they make nothing raise.
SignRaises == ~secret_key

\* how the GET /public/time of get_timestamp can end: the server's time
\* ("ok"), a transport failure ("timeout"), a body without data[0].ts
\* ("malformed"), a status other than 200 with an error body ("non200")
TimeReplies == {"ok", "timeout", "malformed", "non200"}

\* get_timestamp (lines 343-350), the GET having ended as t at instant now:
\* the server's time, or in the except branch the local UTC clock, in the
\* same format.  None stands for an exception leaving the function.
\* (get_timestamp_no_fallback lets the failure out, for C22's sensitivity)
get_timestamp_no_fallback(t, now) ==
    IF t = "ok" THEN Some([src |-> "server", at |-> now]) ELSE None
get_timestamp(t, now) ==
    IF t = "ok"
    THEN Some([src |-> "server", at |-> now])
    ELSE Some([src |-> "local", at |-> now])

\* base64(hmac-sha256(secret, message)), lines 355-357: a value that stands
\* for its message, under the configured secret
Signature(message) == [hmac |-> "OKX_API_SECRET", of |-> message]

\* json.dumps(body), line 495: the serialized string of a body
json_dumps(body) == [json |-> body]

\* a request path, with its ?instId= query when it has one
Path(path, instId) == [path |-> path, instId |-> instId]

\* sign_request (lines 352-367) for one request, its server-time GET having
\* ended as t: the headers, or None when it raises.  body is None for the
\* default "" (`body or ""`).
\* (sign_request_without_body leaves the body out of the signed message, for
\* C23's sensitivity)
sign_request_without_body(t, now, method, path, body) ==
    LET timestamp == get_timestamp(t, now) IN
    IF IsNone(timestamp) \/ SignRaises
    THEN None
    ELSE Some([OK_ACCESS_KEY        |-> api_key,
               OK_ACCESS_SIGN       |-> Signature(<<timestamp[1], method, path, None>>),
               OK_ACCESS_TIMESTAMP  |-> timestamp[1],
               OK_ACCESS_PASSPHRASE |-> passphrase])

sign_request(t, now, method, path, body) ==
    LET timestamp == get_timestamp(t, now) IN               \* line 353
    IF IsNone(timestamp) \/ SignRaises
    THEN None
    ELSE Some([OK_ACCESS_KEY        |-> api_key,
               OK_ACCESS_SIGN       |-> Signature(<<timestamp[1], method, path, body>>),
               OK_ACCESS_TIMESTAMP  |-> timestamp[1],
               OK_ACCESS_PASSPHRASE |-> passphrase])

\* requests.get / requests.post with the signed headers
Request(method, path, body, headers) ==
    [method |-> method, path |-> path, body |-> body, headers |-> headers]

\* -------------------------------------------------------- close_position
\* get_positions (lines 422-428): the server-time GET of its sign_request
\* has ended as t; the signed GET goes out
GetPositionsSign(t) ==
    /\ pc = "pos_time"
    /\ LET symbol  == close_args[1].symbol
           path    == Path("/api/v5/account/positions",          \* lines 423-425
                           IF symbol = EMPTY_SYM THEN None ELSE Some(symbol))
           headers == sign_request(t, Len(calls), "GET", path, None)
       IN  IF IsNone(headers)
           THEN /\ response' = Some(FaultResponse)
                /\ pc' = "done"
                /\ UNCHANGED <<calls, inflight>>
           ELSE /\ calls' = Append(calls, GetPositions)      \* line 428
                /\ inflight' = Some(Request("GET", path, None, headers[1]))
                /\ pc' = "positions"
                /\ UNCHANGED response
    /\ UNCHANGED <<cfgVars, normVars, concVars, payload, parsed, order, closing, positions,
                   orders, authed, poInst, postReply,
                   close_args, lookups, instReply, cfgReply>>

\* line 444
CloseSide(pos_side) == IF pos_side = "long" THEN "sell" ELSE "buy"

\* close_position, lines 437-452, once get_positions has returned r
\* (PositionsReplyAnySize drops the nonzero-size test, for C10's sensitivity)
PositionsReplyAnySize(r) ==
    /\ pc = "positions"
    /\ positions' = Some(r)
    /\ inflight' = None
    /\ LET symbol == close_args[1].symbol
           open   == OpenIndicesAnySize(r.data, symbol)
       IN  IF r.code # "0"
           THEN /\ response' = Some(ResultResponse([code |-> r.code, msg |-> "positions"]))
                /\ pc' = "done"
                /\ UNCHANGED <<order, closing, calls, lookups>>
           ELSE IF open = {}
           THEN /\ response' = Some(ResultResponse([code |-> "0", msg |-> "nothing to close"]))
                /\ pc' = "done"
                /\ UNCHANGED <<order, closing, calls, lookups>>
           ELSE LET pos == r.data[Min(open)] IN
                /\ closing' = Some(pos)
                /\ order' = Some(OrderArgs(symbol, CloseSide(pos.posSide), Abs(pos.pos),
                                           None, "market", Some(pos.mgnMode)))
                /\ calls' = Append(calls, GetInstruments)   \* line 457
                /\ lookups' = Append(lookups, [by |-> "place_order",
                                               symbol |-> symbol])
                /\ pc' = "po_inst"
                /\ UNCHANGED response
    /\ UNCHANGED <<cfgVars, normVars, concVars, payload, parsed, orders, authed, poInst,
                   postReply,
                   close_args, instReply, cfgReply>>

PositionsReply(r) ==
    /\ pc = "positions"
    /\ positions' = Some(r)
    /\ inflight' = None
    /\ LET symbol == close_args[1].symbol
           open   == OpenIndices(r.data, symbol)
       IN  IF r.code # "0"                                   \* lines 438-439
           THEN /\ response' = Some(ResultResponse([code |-> r.code, msg |-> "positions"]))
                /\ pc' = "done"
                /\ UNCHANGED <<order, closing, calls, lookups>>
           ELSE IF open = {}                                 \* line 452
           THEN /\ response' = Some(ResultResponse([code |-> "0", msg |-> "nothing to close"]))
                /\ pc' = "done"
                /\ UNCHANGED <<order, closing, calls, lookups>>
           ELSE LET pos == r.data[Min(open)] IN              \* lines 442-451
                /\ closing' = Some(pos)
                /\ order' = Some(OrderArgs(symbol, CloseSide(pos.posSide), Abs(pos.pos),
                                           None, "market", Some(pos.mgnMode)))
                /\ calls' = Append(calls, GetInstruments)   \* line 457
                /\ lookups' = Append(lookups, [by |-> "place_order",
                                               symbol |-> symbol])
                /\ pc' = "po_inst"
                /\ UNCHANGED response
    /\ UNCHANGED <<cfgVars, normVars, concVars, payload, parsed, orders, authed, poInst,
                   postReply,
                   close_args, instReply, cfgReply>>

\* ----------------------------------------------------------- place_order
\* lines 457-469: the instrument lookup has answered
\* (PlaceOrderInstReplyDefaults carries on with default rules when the lookup
\* found nothing, for C7's sensitivity)
PlaceOrderInstReplyDefaults(h) ==
    /\ pc = "po_inst"
    /\ instReply' = h.kind
    /\ poInst' = IF IsNone(get_instrument_info(h)) THEN "unresolved" ELSE "resolved"
    /\ order' = Some([order[1] EXCEPT !.amount =
                        IF IsNone(get_instrument_info(h)) THEN normalize_size(@, 1, 1)
                        ELSE normalize_size(@, get_instrument_info(h)[1].lotSz,
                                            get_instrument_info(h)[1].minSz)])
    /\ calls' = Append(calls, GetTime)
    /\ pc' = "cfg_time"
    /\ UNCHANGED <<cfgVars, normVars, concVars, payload, parsed, closing, positions, orders,
                   authed, postReply, response,
                   close_args, lookups, cfgReply, inflight>>

PlaceOrderInstReply(h) ==
    /\ pc = "po_inst"
    /\ instReply' = h.kind
    /\ IF IsNone(get_instrument_info(h))                      \* lines 458-460
       THEN /\ poInst' = "unresolved"
            /\ response' = Some(ResultResponse([code |-> "error", msg |-> "instrument"]))
            /\ pc' = "done"
            /\ UNCHANGED <<order, calls>>
       ELSE /\ poInst' = "resolved"
            /\ order' = Some([order[1] EXCEPT !.amount =        \* lines 462-466
                                normalize_size(@, get_instrument_info(h)[1].lotSz,
                                               get_instrument_info(h)[1].minSz)])
            /\ calls' = Append(calls, GetTime)                 \* line 469 -> 373 -> 353
            /\ pc' = "cfg_time"
            /\ UNCHANGED response
    /\ UNCHANGED <<cfgVars, normVars, concVars, payload, parsed, closing, positions, orders,
                   authed, postReply,
                   close_args, lookups, cfgReply, inflight>>

\* get_account_config (lines 371-375): the server-time GET of its
\* sign_request has ended as t; the signed GET goes out
AccountConfigSign(t) ==
    /\ pc = "cfg_time"
    /\ LET path    == Path("/api/v5/account/config", None)
           headers == sign_request(t, Len(calls), "GET", path, None)
       IN  IF IsNone(headers)
           THEN /\ response' = Some(FaultResponse)
                /\ pc' = "done"
                /\ UNCHANGED <<calls, inflight>>
           ELSE /\ calls' = Append(calls, GetConfig)              \* line 375
                /\ inflight' = Some(Request("GET", path, None, headers[1]))
                /\ pc' = "cfg"
                /\ UNCHANGED response
    /\ UNCHANGED <<cfgVars, normVars, concVars, payload, parsed, order, closing, positions,
                   orders, authed, poInst, postReply,
                   close_args, lookups, instReply, cfgReply>>

\* line 470: acc_cfg.get("posMode") if acc_cfg else "net_mode"
\* (PosModeHedgeOnFailure falls back to hedge mode, for C21's sensitivity)
PosModeHedgeOnFailure(acc_cfg) ==
    IF IsNone(acc_cfg) THEN "long_short_mode" ELSE acc_cfg[1].posMode
PosMode(acc_cfg) ==
    IF IsNone(acc_cfg) THEN "net_mode" ELSE acc_cfg[1].posMode

\* lines 476-477
\* (TdModeIgnoresMarket leaves the spot market out, for C20's sensitivity)
TdModeIgnoresMarket(td_mode, market, tdmode) ==
    IF IsNone(td_mode) THEN tdmode ELSE td_mode[1]

TdMode(td_mode, market, tdmode) ==
    IF IsNone(td_mode)
    THEN (IF market = "spot" THEN "cash" ELSE tdmode)
    ELSE td_mode[1]

\* lines 480-493: the order body, a dict whose optional keys are posSide and px
\* (OrderBodyAlwaysPosSide sets posSide whatever the account mode, for C19's
\* sensitivity)
OrderBodyAlwaysPosSide(o, pos_mode, market, tdmode) ==
    LET keys == {"instId", "tdMode", "side", "ordType", "sz", "posSide"}
                \cup (IF ~IsNone(o.price) /\ o.price[1] # 0 /\ o.order_type = "limit"
                      THEN {"px"} ELSE {})
    IN  [k \in keys |->
           CASE k = "instId"  -> o.symbol
             [] k = "tdMode"  -> TdMode(o.td_mode, market, tdmode)
             [] k = "side"    -> o.side
             [] k = "ordType" -> o.order_type
             [] k = "sz"      -> o.amount
             [] k = "posSide" -> (IF o.side = "buy" THEN "long" ELSE "short")
             [] k = "px"      -> o.price[1]]

OrderBody(o, pos_mode, market, tdmode) ==
    LET keys == {"instId", "tdMode", "side", "ordType", "sz"}
                \cup (IF pos_mode = "long_short_mode" THEN {"posSide"} ELSE {})
                \cup (IF ~IsNone(o.price) /\ o.price[1] # 0 /\ o.order_type = "limit"
                      THEN {"px"} ELSE {})
    IN  [k \in keys |->
           CASE k = "instId"  -> o.symbol
             [] k = "tdMode"  -> TdMode(o.td_mode, market, tdmode)
             [] k = "side"    -> o.side
             [] k = "ordType" -> o.order_type
             [] k = "sz"      -> o.amount
             [] k = "posSide" -> (IF o.side = "buy" THEN "long" ELSE "short")
             [] k = "px"      -> o.price[1]]

\* lines 470-496: the account configuration has answered; the body is built
\* and the order's sign_request asks for its timestamp
AccountConfigReply(cfg) ==
    /\ pc = "cfg"
    /\ cfgReply' = cfg
    /\ inflight' = None
    /\ order' = Some([args |-> order[1],
                      body |-> OrderBody(order[1], PosMode(get_account_config(cfg)),
                                         default_market, default_tdmode)])
    /\ calls' = Append(calls, GetTime)                         \* line 496 -> 353
    /\ pc' = "ord_time"
    /\ UNCHANGED <<cfgVars, normVars, concVars, payload, parsed, closing, positions, orders,
                   authed, poInst, postReply, response,
                   close_args, lookups, instReply>>

\* place_order, lines 495-499: the body is serialized, the server-time GET
\* of its sign_request has ended as t, and the POST goes out with the
\* serialized body as its data
OrderSign(t) ==
    /\ pc = "ord_time"
    /\ LET path     == Path("/api/v5/trade/order", None)
           body_str == json_dumps(order[1].body)                 \* line 495
           headers  == sign_request(t, Len(calls), "POST", path, Some(body_str))
       IN  IF IsNone(headers)
           THEN /\ response' = Some(FaultResponse)
                /\ pc' = "done"
                /\ UNCHANGED <<calls, orders, inflight>>
           ELSE /\ calls' = Append(calls, PostOrder)             \* line 499
                /\ orders' = Append(orders, order[1].body)
                /\ inflight' = Some(Request("POST", path, Some(body_str), headers[1]))
                /\ pc' = "post"
                /\ UNCHANGED response
    /\ UNCHANGED <<cfgVars, normVars, concVars, payload, parsed, order, closing, positions,
                   authed, poInst, postReply,
                   close_args, lookups, instReply, cfgReply>>

\* lines 500-505: what place_order returns for each way the POST can end
PostResult(r) ==
    CASE r = "ok"          -> [code |-> "0", msg |-> "ok"]
      [] r = "venue_error" -> [code |-> "51008", msg |-> "rejected"]
      [] OTHER             -> [code |-> "error", msg |-> r]

\* the POST has ended: place_order returns and webhook() answers
\* (OrderReplyResubmit POSTs a failed order again, for C6's sensitivity)
OrderReplyResubmit(r) ==
    /\ pc = "post"
    /\ postReply' = r
    /\ inflight' = None
    /\ IF r = "ok"
       THEN /\ response' = Some(ResultResponse(PostResult(r)))
            /\ pc' = "done"
            /\ UNCHANGED <<calls, orders>>
       ELSE /\ calls' = Append(calls, PostOrder)
            /\ orders' = Append(orders, order[1].body)
            /\ response' = Some(ResultResponse(PostResult(r)))
            /\ pc' = "done"
    /\ UNCHANGED <<cfgVars, normVars, concVars, payload, parsed, order, closing, positions,
                   authed, poInst,
                   close_args, lookups, instReply, cfgReply>>

OrderReply(r) ==
    /\ pc = "post"
    /\ postReply' = r
    /\ inflight' = None
    /\ response' = Some(ResultResponse(PostResult(r)))
    /\ pc' = "done"
    /\ UNCHANGED <<cfgVars, normVars, concVars, payload, parsed, order, closing, positions,
                   calls, orders, authed, poInst,
                   close_args, lookups, instReply, cfgReply>>

\* ------------------------------------------------------- specification
NormIdle ==
    npc = "idle" /\ namount = 0 /\ nlot = 1 /\ nmin = 1 /\ nresult = 0
    /\ nagain = 0

\* the handler threads of the server (app.run, line 707, serves each request
\* in a thread of its own); two are enough for two concurrent requests
Threads == {"t1", "t2"}

ConcIdle ==
    /\ venuePos = 0 /\ openSize = 0
    /\ cpc = [th \in Threads |-> "idle"]
    /\ csnap = [th \in Threads |-> 0]
    /\ closes = <<>>

\* no request is being handled: nothing of an invocation is left over
NoPayload == [json_ok |-> FALSE, fields |-> Drop([action |-> "hold"], {"action"})]

Idle ==
    /\ pc = "idle"
    /\ payload = NoPayload
    /\ parsed = None /\ order = None /\ closing = None /\ positions = None
    /\ close_args = None /\ lookups = <<>>
    /\ calls = <<>> /\ orders = <<>> /\ authed = FALSE
    /\ poInst = "none" /\ instReply = "none" /\ cfgReply = "none"
    /\ postReply = "none" /\ inflight = None /\ response = None

\* webhook() has returned its response; the handler is ready for the next
\* request, and every local of the invocation is gone
Return ==
    /\ pc = "done"
    /\ pc' = "idle"
    /\ payload' = NoPayload
    /\ parsed' = None /\ order' = None /\ closing' = None /\ positions' = None
    /\ close_args' = None /\ lookups' = <<>>
    /\ calls' = <<>> /\ orders' = <<>> /\ authed' = FALSE
    /\ poInst' = "none" /\ instReply' = "none" /\ cfgReply' = "none"
    /\ postReply' = "none" /\ inflight' = None /\ response' = None
    /\ UNCHANGED <<cfgVars, normVars, concVars>>

Init ==
    /\ WEBHOOK_TOKEN \in {"test123", "change-me"}
    /\ default_market \in {"swap", "spot"}
    /\ default_tdmode \in {"cross", "isolated"}
    /\ secret_key \in BOOLEAN
    /\ api_key \in BOOLEAN
    /\ passphrase \in BOOLEAN
    \* at most one of the three credentials is unset
    /\ \/ secret_key /\ api_key
       \/ secret_key /\ passphrase
       \/ api_key /\ passphrase
    /\ Idle
    /\ NormIdle
    /\ ConcIdle

Next ==
    \/ \E p \in Payloads : Receive(p)
    \/ \E h \in InstrumentHttp : ParseInstReply(h)
    \/ \E t \in TimeReplies : GetPositionsSign(t)
    \/ pc = "positions" /\ \E r \in PositionReplies(close_args[1].symbol) : PositionsReply(r)
    \/ \E h \in InstrumentHttp : PlaceOrderInstReply(h)
    \/ \E t \in TimeReplies : AccountConfigSign(t)
    \/ \E cfg \in ConfigReplies : AccountConfigReply(cfg)
    \/ \E t \in TimeReplies : OrderSign(t)
    \/ \E r \in PostReplies : OrderReply(r)
    \/ Return

Spec == Init /\ [][Next]_vars

\* close_position called on its own, with each scope its signature accepts
\* (line 434); what it returns or raises is turned into a response as
\* webhook() turns it (lines 581-587)
CloseScopes == {"long", "short", "both"}

CallClosePosition(symbol, side) ==
    /\ pc = "idle"
    /\ close_args' = Some([symbol |-> symbol, side |-> side])
    /\ calls' = <<GetTime>>                          \* line 436 -> 426 -> 353
    /\ pc' = "pos_time"
    /\ UNCHANGED <<cfgVars, normVars, concVars, payload, parsed, order, closing, positions,
                   lookups, orders, authed, poInst, instReply, cfgReply,
                   postReply, response, inflight>>

NextClose ==
    \/ \E side \in CloseScopes : CallClosePosition(BTC_USDT_SWAP, side)
    \/ \E t \in TimeReplies : GetPositionsSign(t)
    \/ pc = "positions" /\ \E r \in PositionReplies(close_args[1].symbol) : PositionsReply(r)
    \/ \E h \in InstrumentHttp : PlaceOrderInstReply(h)
    \/ \E t \in TimeReplies : AccountConfigSign(t)
    \/ \E cfg \in ConfigReplies : AccountConfigReply(cfg)
    \/ \E t \in TimeReplies : OrderSign(t)
    \/ \E r \in PostReplies : OrderReply(r)
    \/ Return

SpecClose == Init /\ [][NextClose]_vars

\* ----------------------------------------------- concurrent close signals
\* Two close signals for the same symbol, each handled by webhook() in a
\* thread of its own.  The handlers share no program state (trader is only
\* read); they meet at the venue, which holds the position.  The account is a
\* net account holding a short position, the case in which the side
\* close_position picks (buy, line 444) is the reducing one; the instrument
\* has lotSz = minSz = 1 tick, so that normalize_size leaves the size as it is.
ConcRule == [lotSz |-> 1, minSz |-> 1]

InitConc ==
    /\ WEBHOOK_TOKEN = "test123" /\ default_market = "swap"
    /\ default_tdmode = "cross" /\ secret_key = TRUE
    /\ api_key = TRUE /\ passphrase = TRUE
    /\ Idle
    /\ NormIdle
    /\ openSize \in 0..MaxPos
    /\ venuePos = 0 - openSize
    /\ cpc = [th \in Threads |-> "idle"]
    /\ csnap = [th \in Threads |-> 0]
    /\ closes = <<>>

\* webhook() lines 558-577 and get_positions lines 422-428: a close signal
\* with the valid token arrives at thread th, and its signed GET of the
\* positions goes out
ConcClose(th) ==
    /\ cpc[th] = "idle"
    /\ cpc' = [cpc EXCEPT ![th] = "positions"]
    /\ UNCHANGED <<pipelineVars, normVars, venuePos, openSize, csnap, closes>>

\* close_position lines 436-452 in thread th: the venue answers the positions
\* GET with the position it holds now (or the query fails); a nonzero
\* position makes the handler call place_order
ConcPositionsReply(th, ok) ==
    /\ cpc[th] = "positions"
    /\ IF ok /\ venuePos # 0
       THEN /\ csnap' = [csnap EXCEPT ![th] = venuePos]
            /\ cpc' = [cpc EXCEPT ![th] = "place_order"]
       ELSE /\ cpc' = [cpc EXCEPT ![th] = "done"]             \* lines 439, 452
            /\ UNCHANGED csnap
    /\ UNCHANGED <<pipelineVars, normVars, venuePos, openSize, closes>>

\* place_order lines 457-505 in thread th, called with the size of the
\* snapshot (lines 443-451): its lookup ends as h; with the rule found the
\* order is POSTed and the venue, when it accepts (r = "ok"), fills the
\* market buy against the position it holds at that moment
ConcPlaceOrder(th, h, r) ==
    /\ cpc[th] = "place_order"
    /\ cpc' = [cpc EXCEPT ![th] = "done"]
    /\ IF IsNone(get_instrument_info(h))
       THEN UNCHANGED <<venuePos, closes>>
       ELSE LET inst == get_instrument_info(h)[1]
                sz   == normalize_size(Abs(csnap[th]), inst.lotSz, inst.minSz)
            IN  /\ closes' = Append(closes, [by |-> th, side |-> CloseSide("net"),
                                             sz |-> sz, snap |-> csnap[th],
                                             held |-> venuePos,
                                             filled |-> (r = "ok")])
                /\ venuePos' = IF r = "ok" THEN venuePos + sz ELSE venuePos
    /\ UNCHANGED <<pipelineVars, normVars, openSize, csnap>>

NextConc ==
    \/ \E th \in Threads : ConcClose(th)
    \/ \E th \in Threads, ok \in BOOLEAN : ConcPositionsReply(th, ok)
    \/ \E th \in Threads, r \in {"ok", "venue_error"},
          h \in {[kind |-> "timeout", data |-> None],
                 [kind |-> "ok", data |-> Some(ConcRule)]} :
          ConcPlaceOrder(th, h, r)

SpecConc == InitConc /\ [][NextConc]_vars

\* normalize_size on its own: the arguments are drawn, then it is applied
InitNorm ==
    /\ WEBHOOK_TOKEN = "test123" /\ default_market = "swap"
    /\ default_tdmode = "cross" /\ secret_key = TRUE
    /\ api_key = TRUE /\ passphrase = TRUE
    /\ Idle
    /\ ConcIdle
    /\ npc = "call"
    /\ namount \in 0..NormMaxQty
    /\ nlot \in 1..NormMaxLot
    /\ nmin \in 1..NormMaxMin
    /\ nresult = 0
    /\ nagain = 0

NormalizeCall ==
    /\ npc = "call"
    /\ nresult' = normalize_size(namount, nlot, nmin)
    /\ npc' = "returned"
    /\ UNCHANGED <<pipelineVars, concVars, namount, nlot, nmin, nagain>>

\* the quantity normalized by the parse (line 536) is normalized again by
\* place_order (line 466), under the same lotSz and minSz
NormalizeAgain ==
    /\ npc = "returned"
    /\ nagain' = normalize_size(nresult, nlot, nmin)
    /\ npc' = "again"
    /\ UNCHANGED <<pipelineVars, concVars, namount, nlot, nmin, nresult>>

NextNorm == NormalizeCall \/ NormalizeAgain

SpecNorm == InitNorm /\ [][NextNorm]_vars


\* =============================================================== claims
Range(seq) == {seq[i] : i \in DOMAIN seq}
Count(seq, x) == Cardinality({i \in DOMAIN seq : seq[i] = x})

\* the token the signal carries ('' when it carries none)
SignalToken == Get(payload.fields, "token", "")
TokenValid == SignalToken = WEBHOOK_TOKEN /\ SignalToken # "change-me"

\* C1: an order-submission POST is made only for a signal whose token equals
\* the configured webhook token and is not the placeholder 'change-me'; a
\* parsed signal with any other token is answered 403 and no order is POSTed,
\* whatever its action, symbol and quantity.
C1_OrderOnlyWithValidToken ==
    /\ (orders # <<>> \/ PostOrder \in Range(calls)) => TokenValid
    /\ (pc = "done" /\ ~IsNone(parsed) /\ ~TokenValid)
          => /\ response[1].status = "error" /\ response[1].http = 403
             /\ orders = <<>> /\ PostOrder \notin Range(calls)

C1_Witness ==
    /\ pc = "done" /\ ~IsNone(parsed)
    /\ parsed[1].action = "buy" /\ SignalToken = "wrong"
    /\ response[1].http = 403 /\ orders = <<>>

\* C2 (as claimed): no outbound network call is made for a signal before its
\* token has been validated.
C2_NoCallBeforeTokenValidated ==
    calls # <<>> => authed

\* C3: a signal that lacks `action` or lacks `symbol` is answered with an
\* error result and no network call at all is made for it, whatever its
\* other fields and its token.
LacksRequiredField ==
    "action" \notin DOMAIN payload.fields \/ "symbol" \notin DOMAIN payload.fields

C3_MissingFieldNoNetwork ==
    (pc # "idle" /\ LacksRequiredField)
       => /\ pc = "done"
          /\ response[1].status = "error"
          /\ calls = <<>> /\ orders = <<>>

C3_Witness ==
    /\ pc = "done" /\ payload.json_ok
    /\ "action" \notin DOMAIN payload.fields /\ "symbol" \in DOMAIN payload.fields
    /\ TokenValid
    /\ response[1].status = "error" /\ calls = <<>>

\* C4 (as claimed): for positive lotSize and minSize and quantity >= 0 the
\* size normalize_size returns is >= minSize and a multiple of lotSize.
C4_AtLeastMinAndLotMultiple ==
    npc = "returned" => (nresult >= nmin /\ nresult % nlot = 0)

\* C5: normalize_size returns max(1, m) * lotSize, m being the integer nearest
\* to max(quantity, minSize) / lotSize with a tie going up; so 0.0035 with lot
\* and min 0.001 gives 0.004 and 0.0003 gives 0.001 (35, 3, 10, 40 in ticks
\* of 0.0001).
NearestTieUp(a, b) ==
    CHOOSE k \in 0..(a + 1) : 2 * k * b - b <= 2 * a /\ 2 * a < 2 * k * b + b

C5_RoundHalfUpAfterClamp ==
    npc = "returned" =>
       LET amt == IF namount < nmin THEN nmin ELSE namount
           m   == NearestTieUp(amt, nlot)
       IN  /\ nresult = (IF m < 1 THEN 1 ELSE m) * nlot
           /\ (namount = 35 /\ nlot = 10 /\ nmin = 10) => nresult = 40
           /\ (namount = 3 /\ nlot = 10 /\ nmin = 10) => nresult = 10

C5_Witness ==
    npc = "returned" /\ namount = 35 /\ nlot = 10 /\ nmin = 10 /\ nresult = 40

\* C6: one invocation of place_order POSTs the order at most once, and when
\* the POST ends in a transport error, a timeout, an unparsable body or a venue
\* code other than "0", the caller gets an error result and nothing is
\* resubmitted.
C6_SingleOrderAttempt ==
    /\ Len(orders) <= 1 /\ Count(calls, PostOrder) <= 1
    /\ (pc = "done" /\ postReply \in {"venue_error", "timeout", "unparsable"})
          => /\ response[1].status = "error"
             /\ ~IsNone(response[1].data) /\ response[1].data[1].code # "0"
             /\ Len(orders) = 1 /\ Count(calls, PostOrder) = 1

C6_Witness ==
    /\ pc = "done" /\ postReply = "timeout"
    /\ response[1].status = "error" /\ Len(orders) = 1

\* C7: when place_order cannot resolve the instrument it returns an error
\* result and goes no further: no account-config call, no signing (no
\* timestamp fetch after the lookup) and no order POST in that invocation.
C7_UnresolvedInstrumentNoOrder ==
    poInst = "unresolved"
       => /\ pc = "done"
          /\ response[1].status = "error"
          /\ ~IsNone(response[1].data) /\ response[1].data[1].code = "error"
          /\ orders = <<>>
          /\ GetConfig \notin Range(calls) /\ PostOrder \notin Range(calls)
          /\ calls[Len(calls)] = GetInstruments

C7_Witness ==
    /\ poInst = "unresolved" /\ pc = "done" /\ authed /\ secret_key
    /\ parsed[1].action = "sell" /\ orders = <<>>

\* the positions of the closed symbol that get_positions reported open
ReportedOpen ==
    {i \in DOMAIN positions[1].data :
        /\ positions[1].data[i].instId = close_args[1].symbol
        /\ positions[1].data[i].pos # 0}

\* C8 (as claimed): a close that succeeds has submitted exactly one closing
\* order per open nonzero leg of the symbol: two orders when a Long and a
\* Short leg are open.
C8_OneClosingOrderPerLeg ==
    (pc = "done" /\ ~IsNone(positions) /\ positions[1].code = "0"
       /\ response[1].status = "success")
       => Len(orders) = Cardinality(ReportedOpen)

\* the side a position is on: its leg in hedge mode, the sign of pos in net mode
IsLong(pos) == pos.posSide = "long" \/ (pos.posSide = "net" /\ pos.pos > 0)

\* C9 (as claimed): every closing order is a Market order on the side opposite
\* to the position's (Sell closes Long, Buy closes Short), for exactly the
\* position's size and in the position's own margin mode.
C9_ClosingOrderMirrorsPosition ==
    \A i \in DOMAIN orders :
       ~IsNone(closing) =>
          /\ orders[i].ordType = "market"
          /\ orders[i].side = (IF IsLong(closing[1]) THEN "sell" ELSE "buy")
          /\ orders[i].sz = Abs(closing[1].pos)
          /\ orders[i].tdMode = closing[1].mgnMode

\* C10: when the positions query succeeds and reports no position of nonzero
\* size for the symbol, close_position returns success (code "0") and submits
\* no order; every close handled in that situation ends so.
C10_NothingOpenIsNoOp ==
    (pc = "done" /\ ~IsNone(positions) /\ positions[1].code = "0"
       /\ ReportedOpen = {})
       => /\ response[1].status = "success"
          /\ response[1].data[1].code = "0"
          /\ orders = <<>> /\ PostOrder \notin Range(calls)
          /\ IsNone(closing)

C10_Witness ==
    /\ pc = "done" /\ ~IsNone(positions) /\ positions[1].code = "0"
    /\ Len(positions[1].data) = 2 /\ ReportedOpen = {}
    /\ response[1].status = "success" /\ orders = <<>>

\* the scope a position falls under
InScope(scope, pos) ==
    \/ scope = "both"
    \/ scope = "long" /\ IsLong(pos)
    \/ scope = "short" /\ ~IsLong(pos)

\* C11 (as claimed): close_position honours the requested scope: an order that
\* closes a position is submitted only for a position on the requested side
\* (scope long: only long positions; scope short: only short positions).
C11_CloseHonoursScope ==
    (orders # <<>> /\ ~IsNone(close_args) /\ ~IsNone(closing))
       => InScope(close_args[1].side, closing[1])

CredentialAbsent == ~secret_key \/ ~api_key \/ ~passphrase
SignedCalls == {GetConfig, GetPositions, PostOrder}

\* C12 (as claimed): when one of the three credentials (API key, secret,
\* passphrase) is absent, signing fails before any network call: the
\* invocation makes no server-time fetch, no instrument lookup and sends no
\* signed request.
C12_AbsentCredentialNoNetwork ==
    CredentialAbsent
       => /\ GetTime \notin Range(calls)
          /\ GetInstruments \notin Range(calls)
          /\ Range(calls) \cap SignedCalls = {}

\* the failures of one invocation, by kind
ParseFailed ==
    ParseRaisesBeforeLookup(payload) \/ "action" \notin DOMAIN payload.fields
BadToken == ~IsNone(parsed) /\ ~TokenValid
UnsupportedAction ==
    ~IsNone(parsed) /\ TokenValid /\ parsed[1].action \notin {"buy", "sell", "close"}
\* signing was reached (its timestamp fetch is the last call) without a secret
MissingCredentials ==
    ~secret_key /\ calls # <<>> /\ calls[Len(calls)] = GetTime
InstrumentNotFound == poInst = "unresolved"
TransportOrMalformed ==
    \/ postReply \in {"timeout", "unparsable"}
    \/ ~IsNone(positions) /\ positions[1].code = "error"
VenueError ==
    \/ postReply = "venue_error"
    \/ ~IsNone(positions) /\ positions[1].code \notin {"0", "error"}

\* C13: every failure inside the webhook pipeline (parse failure, bad token,
\* unsupported action, missing credentials, instrument not found, transport
\* error, venue error, malformed venue response) ends the invocation with a
\* structured response of status "error" and an HTTP error code; webhook()
\* never ends without a structured response.
C13_FailuresAreStructuredErrors ==
    pc = "done" =>
       /\ ~IsNone(response)
       /\ response[1].status \in {"success", "error"}
       /\ (ParseFailed \/ BadToken \/ UnsupportedAction \/ MissingCredentials
           \/ InstrumentNotFound \/ TransportOrMalformed \/ VenueError)
             => /\ response[1].status = "error"
                /\ response[1].http \in {400, 403, 500}

C13_Witness ==
    /\ pc = "done" /\ authed /\ MissingCredentials
    /\ parsed[1].action = "buy"
    /\ response[1].status = "error" /\ response[1].http = 500

\* C14: for a signal that reaches execution the response has status "success"
\* exactly when the result's code is "0" and status "error" otherwise, and
\* when the venue answered the order POST with a JSON body, `data` is that
\* body unchanged, accepted or refused alike.
C14_StatusMirrorsVenueCode ==
    pc = "done" =>
       /\ ~IsNone(response[1].data)
             => /\ response[1].status \in {"success", "error"}
                /\ response[1].status = "success" <=> response[1].data[1].code = "0"
       /\ postReply # "none" => ~IsNone(response[1].data)
       /\ postReply = "ok"
             => response[1].data = Some([code |-> "0", msg |-> "ok"])
       /\ postReply = "venue_error"
             => response[1].data = Some([code |-> "51008", msg |-> "rejected"])

C14_Witness ==
    /\ pc = "done" /\ postReply = "venue_error"
    /\ response[1].status = "error"
    /\ response[1].data[1].code = "51008"

\* the symbol the signal carries
SignalSymbol == payload.fields.symbol
CarriesSwapSuffix(sym) == Len(sym) >= 2 /\ sym[Len(sym)] = "SWAP"
IsSentinelNONE(sym) == sym \in {<<"NONE">>, <<"none">>}

\* C15 (as claimed): with default market swap, "-SWAP" is appended exactly
\* when the symbol does not already carry that suffix and is not the sentinel
\* "NONE" (case-insensitive), and every instrument lookup receives the symbol
\* so normalized.
C15_AppendsUnlessSuffixedOrSentinel ==
    default_market = "swap" =>
       \A i \in DOMAIN lookups :
          lookups[i].symbol =
             (IF ~CarriesSwapSuffix(SignalSymbol) /\ ~IsSentinelNONE(SignalSymbol)
              THEN SignalSymbol \o <<"SWAP">>
              ELSE SignalSymbol)

\* C15 (amended): with default market swap, "-SWAP" is appended exactly when
\* the symbol is a non-empty string that does not already carry that suffix
\* and is not the sentinel "NONE" (case-insensitive); the empty string is left
\* as it is.  "BTC-USDT" becomes "BTC-USDT-SWAP", "BTC-USDT-SWAP" and "NONE"
\* are unchanged, normalizing a normalized symbol changes nothing, and every
\* instrument lookup of the invocation receives the normalized symbol.
C15_SymbolNormalized ==
    /\ NormalizeSymbol(BTC_USDT, "swap") = BTC_USDT_SWAP
    /\ NormalizeSymbol(BTC_USDT_SWAP, "swap") = BTC_USDT_SWAP
    /\ NormalizeSymbol(NONE_SYM, "swap") = NONE_SYM
    /\ lookups # <<>> =>
          LET expected ==
                 IF default_market = "swap" /\ SignalSymbol # <<"">>
                    /\ ~CarriesSwapSuffix(SignalSymbol) /\ ~IsSentinelNONE(SignalSymbol)
                 THEN SignalSymbol \o <<"SWAP">>
                 ELSE SignalSymbol
          IN  /\ \A i \in DOMAIN lookups : lookups[i].symbol = expected
              /\ NormalizeSymbol(expected, default_market) = expected

C15_Witness ==
    /\ default_market = "swap" /\ Len(lookups) = 2
    /\ SignalSymbol = BTC_USDT
    /\ lookups[1].symbol = BTC_USDT_SWAP /\ lookups[2].symbol = BTC_USDT_SWAP
    /\ lookups[2].by = "place_order"

\* the GETs place_order's instrument lookup has made in this invocation
PlaceOrderLookupAttempts ==
    Cardinality({i \in DOMAIN lookups : lookups[i].by = "place_order"})

\* C16 (as claimed): when the instrument endpoint keeps failing, the lookup
\* is attempted exactly `tries` (3) times before it yields no instrument.
C16_LookupAttemptedMaxTimes ==
    (poInst = "unresolved"
       /\ instReply \in {"timeout", "non200", "empty_body", "bad_json"})
       => PlaceOrderLookupAttempts = tries

\* C17 (as claimed): a GET of the lookup that ends in a non-200 status, an
\* empty body or a body that is not JSON is followed by another attempt
\* while attempts remain.
C17_FailedGetIsRetried ==
    (instReply \in {"non200", "empty_body", "bad_json"} /\ 1 < tries)
       => PlaceOrderLookupAttempts >= 2

\* C18 (as claimed): the lookup yields no instrument only after its second
\* stage: the direct lookup found nothing, and the full instrument list was
\* fetched and scanned.
C18_ListFetchedBeforeGivingUp ==
    poInst = "unresolved" => GetInstrumentList \in Range(calls)

\* place_order has built its order body
BodyBuilt == ~IsNone(order) /\ "body" \in DOMAIN order[1]

\* C19: in every order body place_order builds, posSide is present exactly
\* when the account configuration read for that order says long_short_mode
\* (hedge), and it is then "long" for side buy and "short" for side sell; px
\* is present only when the order type is limit and a price was passed.
C19_OptionalBodyFields ==
    BodyBuilt =>
       LET b == order[1].body
           a == order[1].args
       IN  /\ "posSide" \in DOMAIN b <=> cfgReply = "long_short_mode"
           /\ "posSide" \in DOMAIN b
                 => b.posSide = (IF b.side = "buy" THEN "long" ELSE "short")
           /\ "px" \in DOMAIN b
                 => /\ b.ordType = "limit" /\ ~IsNone(a.price)
                    /\ b.px = a.price[1]
           /\ \A i \in DOMAIN orders : orders[i] = b

C19_Witness ==
    /\ BodyBuilt /\ cfgReply = "long_short_mode" /\ Len(orders) = 1
    /\ orders[1].side = "sell" /\ orders[1].posSide = "short"
    /\ orders[1].ordType = "limit" /\ "px" \in DOMAIN orders[1]

\* C20: the tdMode of a submitted order is the td_mode the caller passed to
\* place_order when it passed one (close_position passes the position's
\* mgnMode); otherwise "cash" when the default market is spot; otherwise the
\* configured default margin mode.
C20_MarginMode ==
    \A i \in DOMAIN orders :
       LET a == order[1].args IN
       orders[i].tdMode =
          (IF ~IsNone(a.td_mode) THEN a.td_mode[1]
           ELSE IF default_market = "spot" THEN "cash"
           ELSE default_tdmode)

C20_Witness ==
    /\ Len(orders) = 1 /\ default_market = "spot" /\ default_tdmode = "isolated"
    /\ IsNone(order[1].args.td_mode)
    /\ orders[1].tdMode = "cash"

\* C21: when the account-configuration lookup fails (transport error,
\* unparsable body, venue code other than "0", empty data), place_order takes
\* the account to be in net mode and goes on: the body it builds carries no
\* posSide, and that body is POSTed as the order.
C21_ConfigFailureDefaultsToNet ==
    cfgReply \in ConfigFailures
       => /\ BodyBuilt
          /\ "posSide" \notin DOMAIN order[1].body
          /\ pc \in {"post", "done"}
                => /\ Len(orders) = 1 /\ orders[1] = order[1].body
                   /\ PostOrder \in Range(calls)

C21_Witness ==
    /\ pc = "done" /\ cfgReply = "unparsable" /\ postReply = "ok"
    /\ Len(orders) = 1 /\ "posSide" \notin DOMAIN orders[1]
    /\ response[1].status = "success"

\* the timestamp header of the signed request in flight
InflightTimestamp == inflight[1].headers.OK_ACCESS_TIMESTAMP

\* C22: get_timestamp always returns a timestamp: the server's time, or the
\* local UTC clock when the server-time call fails (timeout, malformed body,
\* non-success status).  A failed server-time call alone never stops a
\* request from being signed: an invocation ends right after a server-time
\* call only when the secret is unset.
C22_TimestampNeverFails ==
    /\ ~IsNone(inflight) => InflightTimestamp.src \in {"server", "local"}
    /\ (pc = "done" /\ calls # <<>> /\ calls[Len(calls)] = GetTime) => ~secret_key

C22_Witness ==
    /\ ~IsNone(inflight) /\ inflight[1].method = "POST"
    /\ InflightTimestamp.src = "local"
    /\ calls[Len(calls)] = PostOrder

\* C23: every signed request that goes out carries a signature computed for
\* it: over the timestamp of its own headers, which is the one fetched for
\* this request (the server-time call just before it), its method, its path
\* and its body; for the order POST the body signed is the serialized string
\* that is sent, the serialization of the order's body.
C23_SignatureCoversRequest ==
    ~IsNone(inflight) =>
       LET q == inflight[1] IN
       /\ q.headers.OK_ACCESS_SIGN =
             Signature(<<q.headers.OK_ACCESS_TIMESTAMP, q.method, q.path, q.body>>)
       /\ q.headers.OK_ACCESS_TIMESTAMP.at = Len(calls) - 1
       /\ calls[Len(calls) - 1] = GetTime
       /\ q.method = "POST"
             => /\ orders # <<>>
                /\ q.body = Some(json_dumps(orders[Len(orders)]))
       /\ q.method = "GET" => IsNone(q.body)

C23_Witness ==
    /\ ~IsNone(inflight) /\ inflight[1].method = "POST"
    /\ GetConfig \in Range(calls) /\ Count(calls, GetTime) = 2
    /\ inflight[1].body = Some(json_dumps(orders[1]))
    /\ inflight[1].headers.OK_ACCESS_SIGN.of[4] = Some(json_dumps(orders[1]))
    /\ InflightTimestamp.at = Len(calls) - 1

\* C24 (as claimed): every closing order reduces the position it was computed
\* from.  On a hedge account (the position is a long or short leg and the
\* account configuration says long_short_mode) the order's posSide is the leg
\* being closed, with side sell for long and buy for short; on a net account
\* the order's side is opposite to the sign of the position.
C24_ClosingOrderReducesPosition ==
    \A i \in DOMAIN orders :
       ~IsNone(closing) =>
          LET pos == closing[1]
              o   == orders[i]
          IN  /\ (cfgReply = "long_short_mode" /\ pos.posSide \in {"long", "short"})
                    => /\ "posSide" \in DOMAIN o /\ o.posSide = pos.posSide
                       /\ o.side = (IF pos.posSide = "long" THEN "sell" ELSE "buy")
              /\ (cfgReply = "net_mode" /\ pos.posSide = "net")
                    => o.side = (IF pos.pos > 0 THEN "sell" ELSE "buy")

\* the total size of the closing orders POSTed so far that the venue accepted
RECURSIVE SumSz(_)
SumSz(seq) ==
    IF seq = <<>> THEN 0
    ELSE (IF seq[1].filled THEN seq[1].sz ELSE 0) + SumSz(Tail(seq))

\* C25 (as claimed): when two close signals for the same symbol are handled
\* concurrently, the closing orders they submit (and the venue accepts) never
\* add up to more than the size of the position that was open, and no closing
\* order is submitted from a snapshot of the position that the venue no
\* longer holds.
C25_ConcurrentClosesWithinPosition ==
    /\ SumSz(closes) <= openSize
    /\ \A i \in DOMAIN closes : closes[i].snap = closes[i].held

\* C26: for positive lot_size and min_size and amount >= 0, normalize_size
\* applied to its own result returns that result: the size normalized by the
\* parse and again by place_order is the size normalized once.
C26_NormalizeIdempotent ==
    npc = "again" => nagain = nresult

\* the second normalization meets a size below min_size and clamps it again
C26_Witness ==
    /\ npc = "again" /\ namount = 0 /\ nlot = 3 /\ nmin = 4
    /\ nresult = 3 /\ nagain = 3

====
